---- MODULE Spec2Model ----
(***************************************************************************)
(* Model of custom_components/tibber_data/sensor.py: the coordinator that  *)
(* polls two data sources on its own per-source schedule                   *)
(* (TibberDataCoordinator), the month ledger and peak tracker built by     *)
(* _get_data, the update handler of the sensors (TibberDataSensor), and    *)
(* the Consumption value class.                                            *)
(*                                                                         *)
(* Time is an integer number of seconds in one local time zone without     *)
(* daylight saving.  The calendar is simplified to months of MonthDays     *)
(* days.  Python floats are modelled as exact rationals <<num, den>>.      *)
(***************************************************************************)
EXTENDS Integers, Sequences, FiniteSets, TLC

VARIABLES
    now,            \* dt_util.now() as read by the next scheduler tick
    ticks,          \* number of ticks run so far (bounds the exploration)
    password,       \* whether a password is configured (self._password)
    realTime,       \* tibber_home.has_real_time_consumption
    nextDue,        \* self._update_functions: fetcher -> next update time
    token,          \* self._token
    selfData,       \* coordinator.data: << >> for None, <<dict>> otherwise
    ledger,         \* hass.data[DOMAIN]["month_consumption_<home>"]
    last,           \* what the latest tick did (observation of the run)
    secDay,         \* calendar day of the latest secondary invocation
    secCount,       \* secondary invocations on the calendar day secDay
    pass,           \* state of the loop over cons_data (lines 233-265)
    seen,           \* raw hourly records consumed by that loop so far
    evicted,        \* days whose entry that loop has dropped from max_month
    passData,       \* the dict data once that pass reached line 274
    coros,          \* the running _async_update_data coroutines, per caller
    published,      \* every value coordinator.data was set to by a finished run
    sensor          \* what the latest _handle_coordinator_update did

vars == <<now, ticks, password, realTime, nextDue, token, selfData, ledger,
          last, secDay, secCount, pass, seen, evicted, passData, coros,
          published, sensor>>

-----------------------------------------------------------------------------
(* Values *)

\* Python None for a raw record field (consumption, unitPrice, cost)
Null == -1
\* Python None as a snapshot value; a number is a pair <<num, den>>
None == << >>
\* the absent token / an obtained token
NoToken == "None"
Token == "token"

PRIMARY == "_get_data"
SECONDARY == "_get_data_tibber"

-----------------------------------------------------------------------------
(* Calendar *)

Minute == 60
Hour == 60 * Minute
Day == 24 * Hour
\* days of a (simplified) calendar month
MonthDays == 30

DayOf(t) == t \div Day
HourOf(t) == (t % Day) \div Hour
MonthIndex(t) == DayOf(t) \div MonthDays
MonthOf(t) == MonthIndex(t) % 12
YearOf(t) == MonthIndex(t) \div 12
\* datetime.replace(hour=h, minute=m, second=0, microsecond=0)
ReplaceHM(t, h, m) == DayOf(t) * Day + h * Hour + m * Minute
\* datetime.replace(minute=m, second=0, microsecond=0)
ReplaceM(t, m) == (t - (t % Hour)) + m * Minute

-----------------------------------------------------------------------------
(* Exact rationals for Python floats *)

RECURSIVE GCD(_, _)
GCD(a, b) == IF b = 0 THEN a ELSE GCD(b, a % b)

Abs(x) == IF x < 0 THEN -x ELSE x

\* the rational n/d (d # 0) in lowest terms with a positive denominator
Rat(n, d) ==
    LET g == GCD(Abs(n), Abs(d))
        s == IF d < 0 THEN -1 ELSE 1
    IN  <<(s * n) \div g, (s * d) \div g>>

RInt(n) == <<n, 1>>
RAdd(a, b) == Rat(a[1] * b[2] + b[1] * a[2], a[2] * b[2])
RSub(a, b) == Rat(a[1] * b[2] - b[1] * a[2], a[2] * b[2])
RMul(a, b) == Rat(a[1] * b[1], a[2] * b[2])

-----------------------------------------------------------------------------
(* class Consumption *)

Consumption(timestamp, cons, price, cost) ==
    [timestamp |-> timestamp, cons |-> cons, price |-> price, cost |-> cost]

\* Consumption.day
ConsDay(c) == DayOf(c.timestamp)

\* Consumption.__lt__
ConsLt(self, other) ==
    IF self.cons = Null /\ other.cons = Null
    THEN self.timestamp < other.timestamp
    ELSE IF self.cons = Null THEN TRUE
    ELSE IF other.cons = Null THEN FALSE
    ELSE self.cons < other.cons

\* Consumption.__eq__ (and __hash__): identity is the timestamp alone
ConsEq(self, other) == self.timestamp = other.timestamp

\* a set that compares whole records
SetAddByValue(s, c) == s \cup {c}

\* a set whose add replaces an equal element
SetAddLastWins(s, c) == {x \in s : ~ConsEq(x, c)} \cup {c}

\* set.add on a set of Consumption objects: an element equal to one already
\* present is not inserted
SetAdd(s, c) == IF \E x \in s : ConsEq(x, c) THEN s ELSE s \cup {c}

-----------------------------------------------------------------------------
(* Peak tracker: the body of the loop over cons_data, lines 253-265 *)

\* number of entries the tracker keeps
PeakSize == 3

\* cons > other, which Python evaluates as other.__lt__(cons)
ConsGt(self, other) == ConsLt(other, self)

\* list.sort(reverse=True): stable, by __lt__ only
RECURSIVE InsertDesc(_, _, _)
InsertDesc(sorted, x, i) ==
    IF i > Len(sorted) THEN Append(sorted, x)
    ELSE IF ConsLt(sorted[i], x)
         THEN SubSeq(sorted, 1, i - 1) \o <<x>> \o SubSeq(sorted, i, Len(sorted))
         ELSE InsertDesc(sorted, x, i + 1)

RECURSIVE SortFrom(_, _, _)
SortFrom(s, i, acc) ==
    IF i > Len(s) THEN acc ELSE SortFrom(s, i + 1, InsertDesc(acc, s[i], 1))

SortDesc(s) == SortFrom(s, 1, << >>)

\* index of the first entry of max_month on the day of cons, 0 when none
SameDayIndex(max_month, cons) ==
    IF \E k \in 1..Len(max_month) : ConsDay(max_month[k]) = ConsDay(cons)
    THEN CHOOSE k \in 1..Len(max_month) :
            /\ ConsDay(max_month[k]) = ConsDay(cons)
            /\ \A j \in 1..(k - 1) : ConsDay(max_month[j]) # ConsDay(cons)
    ELSE 0

\* the tracker without the same-day search
PeakUpdateAppending(max_month, cons) ==
    IF Len(max_month) < PeakSize \/ ConsGt(cons, max_month[Len(max_month)])
    THEN LET sorted == SortDesc(Append(max_month, cons))
         IN  IF Len(sorted) > PeakSize
             THEN SubSeq(sorted, 1, Len(sorted) - 1)
             ELSE sorted
    ELSE max_month

\* the tracker replacing a same-day entry without comparing
PeakUpdateReplacing(max_month, cons) ==
    IF Len(max_month) < PeakSize \/ ConsGt(cons, max_month[Len(max_month)])
    THEN LET k == SameDayIndex(max_month, cons)
             placed == IF k # 0
                       THEN [max_month EXCEPT ![k] = cons]
                       ELSE Append(max_month, cons)
             sorted == SortDesc(placed)
         IN  IF Len(sorted) > PeakSize
             THEN SubSeq(sorted, 1, Len(sorted) - 1)
             ELSE sorted
    ELSE max_month

\* lines 253-265
PeakUpdate(max_month, cons) ==
    IF Len(max_month) < PeakSize \/ ConsGt(cons, max_month[Len(max_month)])
    THEN LET k == SameDayIndex(max_month, cons)
             placed == IF k # 0
                       THEN IF ConsGt(cons, max_month[k])
                            THEN [max_month EXCEPT ![k] = cons]
                            ELSE max_month
                       ELSE Append(max_month, cons)
             sorted == SortDesc(placed)
         IN  IF Len(sorted) > PeakSize
             THEN SubSeq(sorted, 1, Len(sorted) - 1)
             ELSE sorted
    ELSE max_month

-----------------------------------------------------------------------------
(* _get_data: the loop over cons_data, lines 233-265 *)

\* lines 233-237: the locals before the loop
LoopStart ==
    [max_month |-> << >>, month_consumption |-> {},
     consumption_yesterday_available |-> FALSE,
     consumption_today_available |-> FALSE]

SameMonth(date, t) == MonthOf(date) = MonthOf(t) /\ YearOf(date) = YearOf(t)

\* lines 240-265: one iteration, for the raw hourly record _hour
HourStep(st, _hour, t) ==
    IF _hour.consumption = Null THEN st
    ELSE IF ~SameMonth(_hour.from, t) THEN st
    ELSE LET cons == Consumption(_hour.from, _hour.consumption,
                                 _hour.unitPrice, _hour.cost)
         IN  [max_month |-> PeakUpdate(st.max_month, cons),
              month_consumption |-> SetAdd(st.month_consumption, cons),
              consumption_yesterday_available |->
                  \/ st.consumption_yesterday_available
                  \/ DayOf(_hour.from) = DayOf(t) - 1,
              consumption_today_available |->
                  \/ st.consumption_today_available
                  \/ _hour.from = t - Hour]

RECURSIVE HourLoop(_, _, _, _)
HourLoop(st, cons_data, i, t) ==
    IF i > Len(cons_data) THEN st
    ELSE HourLoop(HourStep(st, cons_data[i], t), cons_data, i + 1, t)

\* sum(max_month), through Consumption.__radd__
RECURSIVE SumCons(_, _)
SumCons(max_month, i) ==
    IF i > Len(max_month) THEN 0
    ELSE max_month[i].cons + SumCons(max_month, i + 1)

\* data[key] = value on a dict
SetKey(data, key, value) ==
    [k \in DOMAIN data \cup {key} |-> IF k = key THEN value ELSE data[k]]

\* "+=" for "=" in line 267
PublishPeakAccumulating(data, max_month) ==
    IF max_month # << >>
    THEN LET mean == Rat(SumCons(max_month, 1), Len(max_month))
             old == IF "peak_consumption" \in DOMAIN data
                       /\ data["peak_consumption"] # None
                    THEN data["peak_consumption"] ELSE RInt(0)
         IN  SetKey(SetKey(data, "peak_consumption", RAdd(old, mean)),
                    "peak_consumption_attrs",
                    <<[k \in 1..Len(max_month) |-> max_month[k].timestamp],
                      [k \in 1..Len(max_month) |-> max_month[k].cons]>>)
    ELSE SetKey(SetKey(data, "peak_consumption", None),
                "peak_consumption_attrs", None)

\* lines 266-274
PublishPeak(data, max_month) ==
    IF max_month # << >>
    THEN SetKey(SetKey(data, "peak_consumption",
                       Rat(SumCons(max_month, 1), Len(max_month))),
                "peak_consumption_attrs",
                <<[k \in 1..Len(max_month) |-> max_month[k].timestamp],
                  [k \in 1..Len(max_month) |-> max_month[k].cons]>>)
    ELSE SetKey(SetKey(data, "peak_consumption", None),
                "peak_consumption_attrs", None)

-----------------------------------------------------------------------------
(* _get_data: next update, price points and aggregates, lines 277-349 *)

\* lines 277-289
BaseNextUpdate(t, rt, st) ==
    IF rt
    THEN IF st.consumption_today_available
         THEN ReplaceM(t + Hour, 2)
         ELSE t + 2 * Minute
    ELSE IF st.consumption_yesterday_available
         THEN ReplaceHM(t + Day, 3, 0)
         ELSE t + 15 * Minute

\* lines 291-298: price_total is a sequence of <<key, price>> in dict order
RECURSIVE PriceLoop(_, _, _, _)
PriceLoop(month_consumption, price_total, i, t) ==
    IF i > Len(price_total) THEN month_consumption
    ELSE LET date == price_total[i][1]
             price == price_total[i][2]
         IN  PriceLoop(IF SameMonth(date, t)
                       THEN SetAdd(month_consumption,
                                   Consumption(date, Null, price, Null))
                       ELSE month_consumption,
                       price_total, i + 1, t)

PricesTomorrowAvailable(price_total, t) ==
    \E i \in 1..Len(price_total) : DayOf(price_total[i][1]) = DayOf(t) + 1

Min(a, b) == IF a <= b THEN a ELSE b

\* without the branch for the hours from 13 on
CapNextUpdateNoon(next_update, prices_tomorrow_available, t) ==
    IF prices_tomorrow_available
    THEN Min(next_update, ReplaceHM(t + Day, 13, 0))
    ELSE Min(next_update, ReplaceHM(t, 13, 1))

\* lines 304-317
CapNextUpdate(next_update, prices_tomorrow_available, t) ==
    IF prices_tomorrow_available
    THEN Min(next_update, ReplaceHM(t + Day, 13, 0))
    ELSE IF HourOf(t) >= 13
         THEN Min(next_update, t + 2 * Minute)
         ELSE Min(next_update, ReplaceHM(t, 13, 1))

\* sum of the function f over the finite set S
RECURSIVE SumOver(_, _)
SumOver(S, f) ==
    IF S = {} THEN 0
    ELSE LET x == CHOOSE y \in S : TRUE
         IN  f[x] + SumOver(S \ {x}, f)

\* "x if x else 0" and "1 if x else 0" on an optional number
Truthy(x) == x # Null /\ x # 0

\* lines 319-338: the accumulators after the loop over month_consumption
Totals(month_consumption, t) ==
    LET Known == {c \in month_consumption : c.cost # Null /\ c.cons # Null}
        Today == {c \in Known : ConsDay(c) = DayOf(t)}
        PriceOf == [c \in month_consumption |->
                       IF Truthy(c.price) THEN c.price ELSE 0]
        CountOf == [c \in month_consumption |->
                       IF Truthy(c.price) THEN 1 ELSE 0]
        CostOf == [c \in month_consumption |-> c.cost]
        ConsOf == [c \in month_consumption |-> c.cons]
    IN  [_total_price |-> SumOver(month_consumption, PriceOf),
         _n_price |-> SumOver(month_consumption, CountOf),
         total_price |-> SumOver(Known, PriceOf),
         n_price |-> SumOver(Known, CountOf),
         total_cost |-> SumOver(Known, CostOf),
         total_cost_day |-> SumOver(Today, CostOf),
         total_cons |-> SumOver(Known, ConsOf),
         total_cons_day |-> SumOver(Today, ConsOf)]

\* (x - 0.7 * 1.25) * 0.9, line 340
Subsidy(mean) == RMul(RSub(mean, RMul(Rat(7, 10), Rat(5, 4))), Rat(9, 10))

\* lines 339-348: the writes to data, up to the first division by zero;
\* raised tells whether a ZeroDivisionError ended them
Aggregates(data, tot) ==
    IF tot.n_price = 0 THEN [raised |-> TRUE, data |-> data]
    ELSE LET d1 == SetKey(data, "monthly_avg_price",
                          Rat(tot.total_price, tot.n_price))
         IN  IF tot._n_price = 0 THEN [raised |-> TRUE, data |-> d1]
             ELSE LET est == Subsidy(Rat(tot._total_price, tot._n_price))
                      d2 == SetKey(d1, "est_subsidy", est)
                  IN  IF tot.total_cons = 0 THEN [raised |-> TRUE, data |-> d2]
                      ELSE LET d3 == SetKey(d2, "customer_avg_price",
                                        Rat(tot.total_cost, tot.total_cons))
                               d4 == SetKey(d3, "daily_cost_with_subsidy",
                                        RSub(RInt(tot.total_cost_day),
                                             RMul(est, RInt(tot.total_cons_day))))
                               d5 == SetKey(d4, "monthly_cost_with_subsidy",
                                        RSub(RInt(tot.total_cost),
                                             RMul(est, RInt(tot.total_cons))))
                           IN  [raised |-> FALSE, data |-> d5]

\* lines 233-274: from the fetched history cons_data to the await of line 275
UntilRefresh(data, st) == PublishPeak(data, st.max_month)

\* lines 277-349: from the return of update_price_info to the end, on the
\* dict d0 and the loop result st that lines 233-274 left
AfterRefresh(d0, st, t, rt, price_total) ==
    LET mc == PriceLoop(st.month_consumption, price_total, 1, t)
        nu == CapNextUpdate(BaseNextUpdate(t, rt, st),
                  PricesTomorrowAvailable(price_total, t), t)
        agg == Aggregates(d0, Totals(mc, t))
    IN  [raised |-> agg.raised, data |-> agg.data,
         stored |-> TRUE, month_consumption |-> mc,
         next_update |-> IF agg.raised THEN 0 ELSE nu]

\* _get_data(data, now), lines 230-349, on the results inp of its awaits:
\*   inp.history_raises  get_historic_data raises
\*   inp.cons_data       the raw hourly records it returns
\*   inp.refresh_raises  tibber_home.update_price_info raises
\*   inp.price_total     tibber_home.price_total after the refresh
\* The result tells whether the call raised, the dict data as written so far,
\* whether the month ledger was stored (line 300) and with what, and the
\* returned next update time.
GetData(data, t, rt, inp) ==
    IF inp.history_raises
    THEN [raised |-> TRUE, data |-> data, stored |-> FALSE,
          month_consumption |-> {}, next_update |-> 0]
    ELSE LET st == HourLoop(LoopStart, inp.cons_data, 1, t)
             d0 == UntilRefresh(data, st)
         IN  IF inp.refresh_raises
             THEN [raised |-> TRUE, data |-> d0, stored |-> FALSE,
                   month_consumption |-> {}, next_update |-> 0]
             ELSE AfterRefresh(d0, st, t, rt, inp.price_total)

-----------------------------------------------------------------------------
(* _get_data_tibber, lines 200-228 *)

\* always the next day
GridNextUpdateTomorrow(t) == ReplaceHM(t, 0, 0) + Day

\* midnight without the added day
GridNextUpdateNoDay(t) ==
    IF HourOf(t) < 15
    THEN ReplaceHM(t, 15, 0)
    ELSE ReplaceHM(t, 0, 0)

\* lines 224-228: the next update after a successful fetch
GridNextUpdate(t) ==
    IF HourOf(t) < 15
    THEN ReplaceHM(t, 15, 0)
    ELSE ReplaceHM(t, 0, 0) + Day

\* lines 218-222: the entries of this home written into data["grid_price"]
\* one by one; an entry << >> lacks its "time" or "gridPrice" and raises
RECURSIVE EntryLoop(_, _, _)
EntryLoop(grid, entries, i) ==
    IF i > Len(entries) THEN [raised |-> FALSE, grid |-> grid]
    ELSE IF entries[i] = << >> THEN [raised |-> TRUE, grid |-> grid]
    ELSE EntryLoop([k \in DOMAIN grid \cup {entries[i][1]} |->
                       IF k = entries[i][1] THEN entries[i][2] ELSE grid[k]],
                   entries, i + 1)

\* a call of get_tibber_token whatever the cached token
NeedsTokenAlways(tok) == TRUE

\* line 203: get_tibber_token is called when no token is cached
NeedsToken(tok) == tok = NoToken

\* lines 208-228: from the await of get_tibber_data, called with the token
\* tok1, to the end
AfterFetch(data, tok1, t, inp) ==
    IF inp.fetch = "raise"
    THEN [raised |-> FALSE, failed |-> TRUE, data |-> data,
          token |-> NoToken, next_update |-> t + 2 * Minute]
    ELSE IF inp.fetch = "malformed"
    THEN [raised |-> TRUE, failed |-> TRUE, data |-> data,
          token |-> tok1, next_update |-> 0]
    ELSE IF ~inp.home
    THEN [raised |-> FALSE, failed |-> FALSE, data |-> data,
          token |-> tok1, next_update |-> GridNextUpdate(t)]
    ELSE LET loop == EntryLoop(<< >>, inp.entries, 1)
             d1 == SetKey(data, "grid_price", loop.grid)
         IN  IF loop.raised
             THEN [raised |-> TRUE, failed |-> TRUE, data |-> d1,
                   token |-> tok1, next_update |-> 0]
             ELSE [raised |-> FALSE, failed |-> FALSE, data |-> d1,
                   token |-> tok1, next_update |-> GridNextUpdate(t)]

\* _get_data_tibber(data, now) on the results inp of its awaits:
\*   inp.auth     what get_tibber_token returns: Token or NoToken
\*   inp.fetch    "raise": get_tibber_data raises; "malformed": it returns a
\*                structure without data.me.homes; "homes": it returns homes
\*   inp.home     whether the homes contain this home
\*   inp.entries  the hourly entries of this home
GetDataTibber(data, tok, t, inp) ==
    LET auth == NeedsToken(tok)
        tok1 == IF auth THEN inp.auth ELSE tok
    IN  IF tok1 = NoToken
        THEN [raised |-> FALSE, failed |-> TRUE, data |-> data,
              token |-> NoToken, next_update |-> t + 2 * Minute,
              authenticated |-> auth]
        ELSE LET r == AfterFetch(data, tok1, t, inp)
             IN  [raised |-> r.raised, failed |-> r.failed, data |-> r.data,
                  token |-> r.token, next_update |-> r.next_update,
                  authenticated |-> auth]

-----------------------------------------------------------------------------
(* TibberDataCoordinator.__init__ and _async_update_data, lines 171-198 *)

\* update_interval, line 177
UpdateInterval == 15

\* a fetcher that is not invoked in a tick consumes no input
NoPrimaryInput ==
    [history_raises |-> FALSE, cons_data |-> << >>,
     refresh_raises |-> FALSE, price_total |-> << >>]
NoSecondaryInput ==
    [auth |-> NoToken, fetch |-> "raise", home |-> FALSE, entries |-> << >>]

\* who runs _async_update_data: the refresh DataUpdateCoordinator schedules
\* every update_interval (line 177), and a refresh requested explicitly
\* through coordinator.async_request_refresh (line 94)
Runners == {"interval", "request"}

\* no _async_update_data coroutine of this caller is running
Idle == [pc |-> "idle", now |-> 0, copy |-> << >>, alias |-> FALSE,
         local |-> << >>, cons_data |-> << >>]

\* no sensor has handled an update yet
NoSensor == [key |-> "none", now |-> 0, price |-> Null, raised |-> FALSE,
             value |-> None]

\* lines 171-188: the coordinator constructed at time start
Constructed(start, pw, rt) ==
    /\ now = start
    /\ ticks = 0
    /\ password = pw
    /\ realTime = rt
    /\ nextDue = [f \in (IF pw THEN {PRIMARY, SECONDARY} ELSE {PRIMARY}) |->
                    start - Minute]
    /\ token = NoToken
    /\ selfData = None
    /\ ledger = None
    /\ last = [now |-> start, due |-> {}, invoked |-> {}, returned |-> TRUE,
               primary |-> "none", secondary |-> "none",
               authenticated |-> FALSE, pre |-> nextDue, pin |-> NoPrimaryInput,
               sin |-> NoSecondaryInput, streak |-> 0, advanced |-> 0,
               runs |-> 0]
    /\ secDay = DayOf(start)
    /\ secCount = 0
    /\ pass = LoopStart
    /\ seen = {}
    /\ evicted = {}
    /\ passData = None
    /\ coros = [r \in Runners |-> Idle]
    /\ published = {None}
    /\ sensor = NoSensor

\* how many consecutive failed primary fetches the observation counts
MaxStreak == 2
\* how many primary invocations the observation counts
MaxRuns == 2

\* coordinator.data after a tick that worked on the dict data: line 193 hands
\* the fetchers coordinator.data itself, or a fresh dict when it is None,
\* and DataUpdateCoordinator publishes the returned dict only
Published(old, raised, data) ==
    IF raised /\ old = None THEN None ELSE <<data>>

\* One scheduler tick at time now: _async_update_data (lines 190-198) run by
\* DataUpdateCoordinator, which publishes the returned dict as
\* coordinator.data, keeps the old coordinator.data when the method raises,
\* and schedules the next tick UpdateInterval later.  PIn and SIn are the
\* results the awaits of the two fetchers can have at this time.  The
\* exploration ends after maxTicks ticks.
TickWith(PIn, SIn, maxTicks) ==
    /\ ticks < maxTicks
    /\ LET data0 == IF selfData = None THEN << >> ELSE selfData[1]
           pDue == now >= nextDue[PRIMARY]
           sDue == SECONDARY \in DOMAIN nextDue /\ now >= nextDue[SECONDARY]
       IN  \E pin \in (IF pDue THEN PIn ELSE {NoPrimaryInput}) :
             \E p \in {IF pDue
                      THEN GetData(data0, now, realTime, pin)
                      ELSE [raised |-> FALSE, data |-> data0, stored |-> FALSE,
                            month_consumption |-> {}, next_update |-> 0]} :
             LET sRun == sDue /\ ~p.raised
             IN  \E sin \in (IF sRun THEN SIn ELSE {NoSecondaryInput}) :
                   \E s \in {IF sRun
                            THEN GetDataTibber(p.data, token, now, sin)
                            ELSE [raised |-> FALSE, failed |-> FALSE,
                                  data |-> p.data, token |-> token,
                                  next_update |-> 0,
                                  authenticated |-> FALSE]} :
                   LET raised == p.raised \/ s.raised
                       due1 == IF pDue /\ ~p.raised
                               THEN [nextDue EXCEPT ![PRIMARY] = p.next_update]
                               ELSE nextDue
                       due2 == IF sRun /\ ~s.raised
                               THEN [due1 EXCEPT ![SECONDARY] = s.next_update]
                               ELSE due1
                       pFetchFailed == pDue /\ (pin.history_raises
                                                \/ pin.refresh_raises)
                       streak == IF ~pDue THEN last.streak
                                 ELSE IF pFetchFailed
                                      THEN Min(last.streak + 1, MaxStreak)
                                      ELSE 0
                       advanced == IF ~pDue THEN last.advanced
                                   ELSE IF pFetchFailed
                                        THEN IF due2[PRIMARY] # nextDue[PRIMARY]
                                             THEN Min(last.advanced + 1, MaxStreak)
                                             ELSE last.advanced
                                        ELSE 0
                   IN  /\ nextDue' = due2
                       /\ token' = s.token
                       /\ selfData' = Published(selfData, raised, s.data)
                       /\ ledger' = IF p.stored
                                    THEN <<p.month_consumption>>
                                    ELSE ledger
                       /\ last' = [now |-> now,
                                   due |-> (IF pDue THEN {PRIMARY} ELSE {})
                                           \cup (IF sDue THEN {SECONDARY} ELSE {}),
                                   invoked |-> (IF pDue THEN {PRIMARY} ELSE {})
                                           \cup (IF sRun THEN {SECONDARY} ELSE {}),
                                   returned |-> ~raised,
                                   primary |-> IF ~pDue THEN "none"
                                               ELSE IF p.raised THEN "raised"
                                               ELSE "returned",
                                   secondary |-> IF ~sRun THEN "none"
                                                 ELSE IF s.raised THEN "raised"
                                                 ELSE IF s.failed THEN "failed"
                                                 ELSE "returned",
                                   authenticated |-> s.authenticated,
                                   pre |-> nextDue, pin |-> pin, sin |-> sin,
                                   streak |-> streak, advanced |-> advanced,
                                   runs |-> IF pDue
                                            THEN Min(last.runs + 1, MaxRuns)
                                            ELSE last.runs]
                       /\ secCount' = IF ~sRun THEN secCount
                                      ELSE IF secDay = DayOf(now)
                                           THEN secCount + 1 ELSE 1
                       /\ secDay' = IF sRun THEN DayOf(now) ELSE secDay
    /\ now' = now + UpdateInterval
    /\ ticks' = ticks + 1
    /\ UNCHANGED <<password, realTime, pass, seen, evicted, passData, coros,
                   published, sensor>>

-----------------------------------------------------------------------------
(* What the collaborators can return *)

At(d, h, m, sec) == d * Day + h * Hour + m * Minute + sec
HourFloor(t) == t - (t % Hour)

\* a raw hourly record of get_historic_data
Raw(from, consumption, unitPrice, cost) ==
    [from |-> from, consumption |-> consumption,
     unitPrice |-> unitPrice, cost |-> cost]

\* the outcomes of the awaits of _get_data over the histories Hs and the
\* price maps Ps
PrimaryInputs(Hs, Ps) ==
    {[history_raises |-> TRUE, cons_data |-> << >>,
      refresh_raises |-> FALSE, price_total |-> << >>]}
    \cup {[history_raises |-> FALSE, cons_data |-> h,
           refresh_raises |-> TRUE, price_total |-> << >>] : h \in Hs}
    \cup {[history_raises |-> FALSE, cons_data |-> h,
           refresh_raises |-> FALSE, price_total |-> q] : h \in Hs, q \in Ps}

\* the outcomes of the awaits of _get_data_tibber over the entry lists Es
SecondaryInputs(Es) ==
    {[auth |-> a, fetch |-> f, home |-> FALSE, entries |-> << >>] :
        a \in {Token, NoToken}, f \in {"raise", "malformed", "homes"}}
    \cup {[auth |-> a, fetch |-> "homes", home |-> TRUE, entries |-> e] :
            a \in {Token, NoToken}, e \in Es}

\* a day in the middle of a month, and the last day of that month
MidDay == 12 * MonthDays + 9
LastDay == 13 * MonthDays - 1

-----------------------------------------------------------------------------
(* Spec: the scheduler over a few minutes around 13:00, 15:00 and midnight *)

MaxTicks == 10

Starts == {At(MidDay, 12, 59, 0), At(MidDay, 14, 58, 37), At(LastDay, 23, 59, 0)}

SchedHistories(t) ==
    LET previous == Raw(HourFloor(t) - Hour, 2, 3, 6)
        yesterday == Raw(HourFloor(t) - Day, 1, 2, 2)
    IN  {<< >>, <<previous>>, <<yesterday>>}

SchedPrices(t) == {<< >>, << <<HourFloor(t) + Day, 5>> >>}

SchedEntries(t) ==
    {<< <<HourFloor(t), 1>> >>, << <<HourFloor(t), 1>>, << >> >>}

Init ==
    \E start \in Starts, pw \in BOOLEAN, rt \in BOOLEAN :
        Constructed(start, pw, rt)

Tick ==
    TickWith(PrimaryInputs(SchedHistories(now), SchedPrices(now)),
             SecondaryInputs(SchedEntries(now)), MaxTicks)

Next == Tick

Spec == Init /\ [][Next]_vars

-----------------------------------------------------------------------------
(* SpecDay: the scheduler over more than a whole day, with a secondary     *)
(* fetcher that always succeeds and a history fetch that fails at most     *)
(* MaxStreak times in a row                                                *)

MaxDayTicks == 5900

DayStarts == {At(MidDay, 0, 0, 0), At(MidDay, 14, 59, 0), At(MidDay, 23, 59, 53)}

DayHistories(t) == {<<Raw(HourFloor(t) - Hour, 2, 3, 6)>>}

DayPrimaryInputs(t) ==
    {i \in PrimaryInputs(DayHistories(t), {<< >>}) :
        /\ ~i.refresh_raises
        /\ i.history_raises => last.streak < MaxStreak}

DaySecondaryInputs(t) ==
    {i \in SecondaryInputs({<< <<HourFloor(t), 1>> >>}) :
        i.auth = Token /\ i.fetch = "homes" /\ i.home}

InitDay ==
    \E start \in DayStarts, rt \in BOOLEAN : Constructed(start, TRUE, rt)

TickDay ==
    TickWith(DayPrimaryInputs(now), DaySecondaryInputs(now), MaxDayTicks)

NextDay == TickDay

SpecDay == InitDay /\ [][NextDay]_vars

-----------------------------------------------------------------------------
(* SpecRun: the primary fetcher alone (no password configured), over all   *)
(* short histories and price maps of a small universe                      *)

MaxRunTicks == 9
\* longest history and longest price map
MaxHist == 2

RunStarts == {At(MidDay, 10, 0, 0), At(LastDay, 23, 59, 45)}

RunRecords(t) ==
    {Raw(HourFloor(t) - Hour, 2, 3, 6),
     Raw(HourFloor(t) - Hour, 4, 0, Null),
     Raw(HourFloor(t) - Day, 0, 5, 0)}

RunPoints(t) ==
    {<<HourFloor(t) - Hour, 7>>, <<HourFloor(t) + Day, 0>>}

\* the sequences over S of length at most n
SeqsUpTo(S, n) == UNION {[1..k -> S] : k \in 0..n}

RunHistories(t) == SeqsUpTo(RunRecords(t), MaxHist)

\* a dict has each key once
RunPrices(t) ==
    {q \in SeqsUpTo(RunPoints(t), MaxHist) :
        \A i, j \in 1..Len(q) : i # j => q[i][1] # q[j][1]}

InitRun ==
    \E start \in RunStarts, rt \in BOOLEAN : Constructed(start, FALSE, rt)

\* the exploration ends after MaxRuns primary invocations
TickRun ==
    /\ now >= nextDue[PRIMARY] => last.runs < MaxRuns
    /\ TickWith(PrimaryInputs(RunHistories(now), RunPrices(now)),
                {NoSecondaryInput}, MaxRunTicks)

NextRun == TickRun

SpecRun == InitRun /\ [][NextRun]_vars

-----------------------------------------------------------------------------
(* SpecPeak: the loop over cons_data of one _get_data call, one raw record *)
(* at a time, then lines 266-274                                           *)

\* number of distinct raw records one pass consumes
MaxPass == 5

PassNow == At(MidDay, 10, 0, 0)

PassStamps ==
    {At(MidDay - 3, 8, 0, 0), At(MidDay - 3, 9, 0, 0), At(MidDay - 2, 8, 0, 0),
     At(MidDay - 1, 8, 0, 0), At(MidDay, 8, 0, 0)}

PassRecords ==
    {Raw(ts, c, 1, c) : ts \in PassStamps, c \in 1..3}
    \cup {Raw(At(MidDay, 8, 0, 0), Null, 1, Null),
          Raw(At(MidDay - MonthDays, 8, 0, 0), 3, 1, 3)}

TrackedDays(max_month) == {ConsDay(max_month[k]) : k \in 1..Len(max_month)}

InitPeak == Constructed(PassNow, FALSE, FALSE)

\* lines 239-265: the loop consumes the next raw record
PassStep ==
    /\ passData = None
    /\ \E _hour \in PassRecords :
         /\ Cardinality(seen \cup {_hour}) <= MaxPass
         /\ pass' = HourStep(pass, _hour, now)
         /\ seen' = seen \cup {_hour}
         /\ evicted' = evicted \cup
                (TrackedDays(pass.max_month) \ TrackedDays(pass'.max_month))
    /\ UNCHANGED <<now, ticks, password, realTime, nextDue, token, selfData,
                   ledger, last, secDay, secCount, passData, coros, published,
                   sensor>>

\* lines 266-274: the loop is over
PassPublish ==
    /\ passData = None
    /\ passData' = <<PublishPeak(<< >>, pass.max_month)>>
    /\ UNCHANGED <<now, ticks, password, realTime, nextDue, token, selfData,
                   ledger, last, secDay, secCount, pass, seen, evicted, coros,
                   published, sensor>>

NextPeak == PassStep \/ PassPublish

SpecPeak == InitPeak /\ [][NextPeak]_vars

-----------------------------------------------------------------------------
(* SpecAsync: _async_update_data as a coroutine that is suspended at every *)
(* await of the fetchers.  The first call is the refresh requested by      *)
(* async_setup_platform (line 94).  DataUpdateCoordinator schedules the    *)
(* refresh of the interval update_interval after a refresh has ended, so   *)
(* never while one is running; an explicit async_request_refresh (an       *)
(* entity update requested by the user) starts a call whenever no          *)
(* requested refresh is running, also while the refresh of the interval is *)
(* suspended.  Awaits take no time of the clock.                           *)

\* number of _async_update_data calls
MaxAsyncTicks == 7

AsyncStarts == {At(MidDay, 12, 59, 59)}

\* the dict the variable data of coroutine c refers to: coordinator.data
\* itself or the dict line 193 created
DataOf(c) == IF c.alias THEN selfData[1] ELSE c.local

\* the pc of a coroutine that enters _get_data_tibber: lines 203-209
EnterSecondary == IF NeedsToken(token) THEN "token" ELSE "fetch"

\* line 196 for the secondary fetcher, on the copy of line 194
SecondaryDue(c) == SECONDARY \in DOMAIN c.copy /\ c.now >= c.copy[SECONDARY]

\* Coroutine c of caller r, whose dict reads d after the code it just ran,
\* goes on to pc1: an await, "raised" (an exception leaves
\* _async_update_data) or "returned" (line 198, and DataUpdateCoordinator
\* sets coordinator.data to the returned dict).  A coroutine of the other
\* caller that works on the dict coordinator.data was keeps that dict.
GoOn(r, c, d, pc1) ==
    LET o == CHOOSE x \in Runners : x # r
        ended == pc1 \in {"raised", "returned"}
    IN  /\ selfData' = IF c.alias \/ pc1 = "returned" THEN <<d>> ELSE selfData
        /\ published' = IF pc1 = "returned"
                        THEN published \cup {<<d>>} ELSE published
        /\ coros' = [x \in Runners |->
                       IF x = r
                       THEN IF ended THEN Idle
                            ELSE [c EXCEPT !.pc = pc1,
                                           !.local = IF c.alias THEN << >>
                                                     ELSE d]
                       ELSE IF pc1 = "returned" /\ ~c.alias
                               /\ coros[o].pc # "idle" /\ coros[o].alias
                            THEN [coros[o] EXCEPT !.alias = FALSE,
                                                  !.local = selfData[1]]
                            ELSE coros[o]]
        /\ now' = IF ended /\ coros[o].pc = "idle"
                  THEN now + UpdateInterval ELSE now

\* lines 192-196: caller r starts _async_update_data, which runs to the
\* first await of a due fetcher, or to line 198 when none is due
StartUpdate(r) ==
    /\ ticks < MaxAsyncTicks
    /\ coros[r].pc = "idle"
    /\ r = "interval" => ticks > 0 /\ \A x \in Runners : coros[x].pc = "idle"
    /\ LET c == [pc |-> "idle", now |-> now, copy |-> nextDue,
                 alias |-> selfData # None, local |-> << >>,
                 cons_data |-> << >>]
       IN  GoOn(r, c, DataOf(c),
                IF c.now >= c.copy[PRIMARY] THEN "history"
                ELSE IF SecondaryDue(c) THEN EnterSecondary
                ELSE "returned")
    /\ ticks' = ticks + 1
    /\ UNCHANGED <<password, realTime, nextDue, token, ledger, last, secDay,
                   secCount, pass, seen, evicted, passData, sensor>>

\* line 234: get_historic_data returns or raises; lines 235-274 run to the
\* await of line 275
HistoryDone(r) ==
    /\ coros[r].pc = "history"
    /\ LET c == coros[r]
       IN  \/ GoOn(r, c, DataOf(c), "raised")
           \/ \E h \in SchedHistories(c.now) :
                GoOn(r, [c EXCEPT !.cons_data = h],
                     UntilRefresh(DataOf(c), HourLoop(LoopStart, h, 1, c.now)),
                     "refresh")
    /\ UNCHANGED <<ticks, password, realTime, nextDue, token, ledger, last,
                   secDay, secCount, pass, seen, evicted, passData, sensor>>

\* line 275: update_price_info returns or raises; lines 277-349 run, line
\* 197 stores the next update time and the loop goes on to the secondary
\* fetcher
RefreshDone(r) ==
    /\ coros[r].pc = "refresh"
    /\ LET c == coros[r]
       IN  \/ /\ GoOn(r, c, DataOf(c), "raised")
              /\ UNCHANGED <<nextDue, ledger>>
           \/ \E q \in SchedPrices(c.now) :
                \E p \in {AfterRefresh(DataOf(c),
                              HourLoop(LoopStart, c.cons_data, 1, c.now),
                              c.now, realTime, q)} :
                  /\ ledger' = <<p.month_consumption>>
                  /\ nextDue' = IF p.raised THEN nextDue
                                ELSE [nextDue EXCEPT ![PRIMARY] = p.next_update]
                  /\ GoOn(r, c, p.data,
                          IF p.raised THEN "raised"
                          ELSE IF SecondaryDue(c) THEN EnterSecondary
                          ELSE "returned")
    /\ UNCHANGED <<ticks, password, realTime, token, last, secDay, secCount,
                   pass, seen, evicted, passData, sensor>>

\* line 204: get_tibber_token returns a token or None
TokenDone(r) ==
    /\ coros[r].pc = "token"
    /\ LET c == coros[r]
       IN  \E a \in {Token, NoToken} :
             /\ token' = a
             /\ nextDue' = IF a = NoToken
                           THEN [nextDue EXCEPT
                                    ![SECONDARY] = c.now + 2 * Minute]
                           ELSE nextDue
             /\ GoOn(r, c, DataOf(c),
                     IF a = NoToken THEN "returned" ELSE "fetch")
    /\ UNCHANGED <<ticks, password, realTime, ledger, last, secDay, secCount,
                   pass, seen, evicted, passData, sensor>>

\* line 209: get_tibber_data returns or raises; lines 210-228 run, line 197
\* stores the next update time and line 198 returns
FetchDone(r) ==
    /\ coros[r].pc = "fetch"
    /\ LET c == coros[r]
       IN  \E inp \in {i \in SecondaryInputs(SchedEntries(c.now)) :
                          i.auth = Token} :
             \E s \in {AfterFetch(DataOf(c), Token, c.now, inp)} :
               /\ token' = IF inp.fetch = "raise" THEN NoToken ELSE token
               /\ nextDue' = IF s.raised THEN nextDue
                             ELSE [nextDue EXCEPT ![SECONDARY] = s.next_update]
               /\ GoOn(r, c, s.data,
                       IF s.raised THEN "raised" ELSE "returned")
    /\ UNCHANGED <<ticks, password, realTime, ledger, last, secDay, secCount,
                   pass, seen, evicted, passData, sensor>>

InitAsync ==
    \E start \in AsyncStarts, pw \in BOOLEAN, rt \in BOOLEAN :
        Constructed(start, pw, rt)

NextAsync ==
    \E r \in Runners :
        \/ StartUpdate(r)
        \/ HistoryDone(r)
        \/ RefreshDone(r)
        \/ TokenDone(r)
        \/ FetchDone(r)

SpecAsync == InitAsync /\ [][NextAsync]_vars

-----------------------------------------------------------------------------
(* TibberDataSensor, lines 111-165, and SpecSensor: a few ticks across an  *)
(* hour boundary, each followed by the update handlers of the sensors      *)

\* SENSORS, lines 30-79
SensorKeys ==
    {"peak_consumption", "monthly_avg_price", "customer_avg_price",
     "est_subsidy", "est_current_price_with_subsidy",
     "daily_cost_with_subsidy", "monthly_cost_with_subsidy",
     "total_price_with_subsidy", "grid_price"}

\* lines 95-106: the sensors async_setup_platform creates
Sensors(pw, rt) ==
    {k \in SensorKeys :
        /\ k = "daily_cost_with_subsidy" => rt
        /\ k \in {"grid_price", "total_price_with_subsidy"} => pw}

\* data.get(key)
Get(data, key) == IF key \in DOMAIN data THEN data[key] ELSE None

\* data.get("est_subsidy", 0)
GetSubsidy(data) ==
    IF "est_subsidy" \in DOMAIN data THEN data["est_subsidy"] ELSE RInt(0)

\* data.get("grid_price", {}).get(now.replace(minute=0, second=0,
\* microsecond=0)), lines 140-148: the grid price as a number, or None
GetGridPrice(data, t) ==
    LET grid == IF "grid_price" \in DOMAIN data THEN data["grid_price"]
                ELSE << >>
    IN  IF HourFloor(t) \in DOMAIN grid THEN RInt(grid[HourFloor(t)])
        ELSE None

\* round(x, 2), to the nearest hundredth and to the even one on a tie
Round2(x) ==
    LET k == (100 * x[1]) \div x[2]
        rem == 100 * x[1] - k * x[2]
    IN  Rat(IF 2 * rem > x[2] \/ (2 * rem = x[2] /\ k % 2 = 1)
            THEN k + 1 ELSE k, 100)

\* lines 157-159: round(native_value, 2) if native_value else native_value
RoundTruthy(x) == IF x = None \/ x[1] = 0 THEN x ELSE Round2(x)

\* _handle_coordinator_update of the sensor key, lines 133-165, on
\* coordinator.data dataOpt at time t, with price the first component of
\* tibber_home.current_price_data() (Null for None): whether it raised, and
\* the _attr_native_value it set
HandleUpdate(key, dataOpt, t, price) ==
    IF dataOpt = None
    THEN [raised |-> TRUE, value |-> None]
    ELSE LET data == dataOpt[1]
         IN  IF key = "est_current_price_with_subsidy"
             THEN IF price = Null
                  THEN [raised |-> TRUE, value |-> None]
                  ELSE [raised |-> FALSE,
                        value |-> RoundTruthy(RSub(RInt(price),
                                                   GetSubsidy(data)))]
             ELSE IF key = "grid_price"
             THEN [raised |-> FALSE,
                   value |-> RoundTruthy(GetGridPrice(data, t))]
             ELSE IF key = "total_price_with_subsidy"
             THEN LET grid_price == GetGridPrice(data, t)
                  IN  IF grid_price = None \/ price = Null
                      THEN [raised |-> TRUE, value |-> None]
                      ELSE [raised |-> FALSE,
                            value |-> RoundTruthy(
                                RSub(RAdd(grid_price, RInt(price)),
                                     GetSubsidy(data)))]
             ELSE [raised |-> FALSE, value |-> RoundTruthy(Get(data, key))]

MaxSensorTicks == 3

SensorStarts == {At(MidDay, 12, 59, 40)}

\* the hourly entries of the home: of the current hour, or of the next one
SensorEntries(t) ==
    {<< <<HourFloor(t), 1>> >>, << <<HourFloor(t) + Hour, 2>> >>}

\* what current_price_data() can give as the price of the current hour
LivePrices == {Null, 3}

InitSensor ==
    \E start \in SensorStarts, pw \in BOOLEAN, rt \in BOOLEAN :
        Constructed(start, pw, rt)

TickSensor ==
    TickWith(PrimaryInputs(SchedHistories(now), SchedPrices(now)),
             SecondaryInputs(SensorEntries(now)), MaxSensorTicks)

\* DataUpdateCoordinator calls the listeners after a refresh: the handler of
\* the sensor key runs on what the latest tick left
HandleCoordinatorUpdate(key) ==
    /\ ticks > 0
    /\ key \in Sensors(password, realTime)
    /\ \E price \in LivePrices :
         \E h \in {HandleUpdate(key, selfData, last.now, price)} :
           sensor' = [key |-> key, now |-> last.now, price |-> price,
                      raised |-> h.raised, value |-> h.value]
    /\ UNCHANGED <<now, ticks, password, realTime, nextDue, token, selfData,
                   ledger, last, secDay, secCount, pass, seen, evicted,
                   passData, coros, published>>

NextSensor ==
    \/ TickSensor
    \/ \E key \in SensorKeys : HandleCoordinatorUpdate(key)

SpecSensor == InitSensor /\ [][NextSensor]_vars

-----------------------------------------------------------------------------
(* Claims about the scheduler tick and the failure policy *)

\* C1: no error raised inside a fetcher aborts the tick: every tick returns
\* a snapshot normally and invokes every fetcher that was due in it.
C1_NoFetcherErrorAbortsTick ==
    ticks > 0 =>
        /\ last.returned
        /\ selfData # None
        /\ last.invoked = last.due

\* C2: an invocation of the primary fetcher whose fetch fails replaces the
\* fetcher's next update time by one later than now, never leaving it at its
\* value before the invocation; a streak of failures advances it once per
\* failure.
C2_FailedPrimaryAdvancesNextDue ==
    (PRIMARY \in last.invoked
        /\ (last.pin.history_raises \/ last.pin.refresh_raises)) =>
        /\ nextDue[PRIMARY] > last.now
        /\ nextDue[PRIMARY] # last.pre[PRIMARY]
        /\ last.advanced = last.streak

\* C3: after an invocation of the secondary fetcher that fails in any way the
\* cached token is None and the fetcher's next update time is now + 2 minutes.
C3_SecondaryFailureResetsToken ==
    (SECONDARY \in last.invoked /\ last.secondary \in {"failed", "raised"}) =>
        /\ token = NoToken
        /\ nextDue[SECONDARY] = last.now + 120

\* C4: after a successful invocation of the secondary fetcher at time now its
\* next update time is today 15:00:00 when now is before 15:00, and tomorrow
\* 00:00:00 otherwise.
C4_SecondarySuccessNextDue ==
    (SECONDARY \in last.invoked /\ last.secondary = "returned") =>
        nextDue[SECONDARY] =
            IF last.now % 86400 < 15 * 3600
            THEN (last.now - (last.now % 86400)) + 15 * 3600
            ELSE (last.now - (last.now % 86400)) + 86400

\* a success at 14:58 or 14:59 sets the same day's 15:00
C4_Witness ==
    /\ SECONDARY \in last.invoked
    /\ last.secondary = "returned"
    /\ HourOf(last.now) = 14
    /\ nextDue[SECONDARY] = At(MidDay, 15, 0, 0)

\* C5: while every secondary invocation succeeds, the secondary fetcher is
\* invoked at most twice within one calendar day.
C5_AtMostTwicePerDay == secCount <= 2

\* the day after the start has had its two invocations
C5_Witness == secCount = 2 /\ secDay = MidDay + 1 /\ DayOf(now) = MidDay + 1

-----------------------------------------------------------------------------
(* Claims about the month ledger and the snapshot of one primary run *)

\* the latest tick invoked the primary fetcher, which got past line 300
StoredNow ==
    /\ PRIMARY \in last.invoked
    /\ ~last.pin.history_raises
    /\ ~last.pin.refresh_raises

\* C6: the stored month ledger never holds two records with the same
\* timestamp, whatever the raw records and price points were.
C6_LedgerTimestampsUnique ==
    ledger # None =>
        \A a, b \in ledger[1] : a.timestamp = b.timestamp => a = b

\* the ledger was built from a history that repeats a timestamp with other
\* values and from a price point of an hour that has a consumption record
C6_Witness ==
    /\ StoredNow
    /\ \E i, j \in 1..Len(last.pin.cons_data) :
          /\ i < j
          /\ last.pin.cons_data[i].from = last.pin.cons_data[j].from
          /\ last.pin.cons_data[i] # last.pin.cons_data[j]
          /\ SameMonth(last.pin.cons_data[i].from, last.now)
          /\ \E k \in 1..Len(last.pin.price_total) :
                last.pin.price_total[k][1] = last.pin.cons_data[i].from
    /\ Cardinality(ledger[1]) = 1

\* C9: when a denominator of the aggregates is empty after a primary fetch,
\* the fetcher completes without raising and the affected metrics are unset.
C9_EmptyDenominatorUnset ==
    LET tot == Totals(ledger[1], last.now)
        data == selfData[1]
        Unset(key) == key \notin DOMAIN data \/ data[key] = None
    IN  (StoredNow /\ (tot.n_price = 0 \/ tot._n_price = 0 \/ tot.total_cons = 0)) =>
            /\ last.primary = "returned"
            /\ selfData # None
            /\ tot.n_price = 0 => Unset("monthly_avg_price")
            /\ tot._n_price = 0 =>
                  /\ Unset("est_subsidy")
                  /\ Unset("daily_cost_with_subsidy")
                  /\ Unset("monthly_cost_with_subsidy")
            /\ tot.total_cons = 0 => Unset("customer_avg_price")

\* C10: running the primary fetcher again at the same now with the same
\* fetch results, on top of the snapshot and ledger of the first run, yields
\* the same snapshot, ledger and next update time.
C10_PrimaryRunIdempotent ==
    PRIMARY \in last.invoked =>
        LET data1 == IF selfData = None THEN << >> ELSE selfData[1]
            again == GetData(data1, last.now, realTime, last.pin)
        IN  /\ again.raised = (last.primary = "raised")
            /\ Published(selfData, again.raised, again.data) = selfData
            /\ again.stored => <<again.month_consumption>> = ledger
            /\ ~again.raised => again.next_update = nextDue[PRIMARY]

\* a second run that returned, on top of what the first run left
C10_Witness ==
    /\ PRIMARY \in last.invoked
    /\ last.primary = "returned"
    /\ last.runs = 2
    /\ last.pin.cons_data # << >>
    /\ last.pin.price_total # << >>

-----------------------------------------------------------------------------
(* Claims about the peak tracker *)

\* the in-month records with known consumption the pass has consumed
Counted == {h \in seen : h.consumption # Null /\ SameMonth(h.from, now)}
CountedDays == {DayOf(h.from) : h \in Counted}
\* the highest hourly consumption of day d
DayMax(d) ==
    CHOOSE m \in {h.consumption : h \in {x \in Counted : DayOf(x.from) = d}} :
        \A h \in Counted : DayOf(h.from) = d => h.consumption <= m

\* C7: at every step of the pass max_month holds at most 3 entries, no two
\* of them on the same calendar day, sorted by consumption descending.
C7_TrackerShape ==
    LET mm == pass.max_month
    IN  /\ Len(mm) <= 3
        /\ \A i, j \in 1..Len(mm) : i # j => ConsDay(mm[i]) # ConsDay(mm[j])
        /\ \A i, j \in 1..Len(mm) : i < j => mm[i].cons >= mm[j].cons

\* a full tracker after records of four days, two of them of one day
C7_Witness ==
    /\ Len(pass.max_month) = 3
    /\ Cardinality(CountedDays) = 4
    /\ evicted # {}
    /\ \E a, b \in Counted : a # b /\ DayOf(a.from) = DayOf(b.from)

\* C8: the tracker holds exactly the (up to) three largest per-day maxima,
\* each day contributing its highest hour only, and peak_consumption is their
\* arithmetic mean.
C8_TrackerIsTopThree ==
    LET mm == pass.max_month
        days == TrackedDays(mm)
        top == [d \in days |-> DayMax(d)]
    IN  /\ days \subseteq CountedDays
        /\ Cardinality(days) = Len(mm)
        /\ Len(mm) = IF Cardinality(CountedDays) < 3
                     THEN Cardinality(CountedDays) ELSE 3
        /\ \A k \in 1..Len(mm) : mm[k].cons = DayMax(ConsDay(mm[k]))
        /\ \A d \in CountedDays \ days : \A e \in days : DayMax(d) <= DayMax(e)
        /\ passData # None =>
              passData[1]["peak_consumption"] =
                  IF days = {} THEN None
                  ELSE Rat(SumOver(days, top), Cardinality(days))

\* the published tracker holds a day whose entry had been dropped earlier
C8_Witness ==
    /\ passData # None
    /\ evicted \cap TrackedDays(pass.max_month) # {}
    /\ Cardinality(CountedDays) = 4

-----------------------------------------------------------------------------
(* Claims about what a failed run leaves behind *)

\* C11: an invocation of the primary fetcher that fails, wherever it fails
\* (history fetch, live price refresh or the aggregates), leaves the stored
\* month ledger and every metric of the snapshot exactly as they were before
\* the invocation.
C11_FailedPrimaryLeavesState ==
    [][(PRIMARY \in last'.invoked /\ last'.primary = "raised") =>
          (ledger' = ledger /\ selfData' = selfData)]_vars

\* C12: at every suspension point inside a tick and between ticks,
\* coordinator.data equals a snapshot published at the end of a completed
\* tick (or is still None): nobody can read a partially written snapshot.
C12_OnlyPublishedSnapshots == selfData \in published

-----------------------------------------------------------------------------
(* Claims about the sensors *)

\* C13: on every snapshot a tick can publish (a grid_price map without the
\* current hour, no grid_price, no est_subsidy) and with a known live price,
\* _handle_coordinator_update yields a number or an absent value and never
\* raises; total_price_with_subsidy is absent when the grid price of the
\* current hour is unknown.
C13_HandlerNeverRaises ==
    (sensor.key # "none" /\ sensor.now = last.now /\ selfData # None
        /\ sensor.price # Null) =>
        /\ ~sensor.raised
        /\ (sensor.key = "total_price_with_subsidy"
              /\ GetGridPrice(selfData[1], sensor.now) = None) =>
                 sensor.value = None

-----------------------------------------------------------------------------
(* Claims about when and how the fetchers are invoked *)

\* C14: in every tick a registered fetcher is invoked if and only if its
\* next update time is not later than the now of the tick: every due fetcher
\* is invoked (once), and a fetcher that is not due is not invoked and keeps
\* its next update time.
C14_InvokedIffDue ==
    ticks > 0 =>
        \A f \in DOMAIN nextDue :
            /\ f \in last.invoked <=> last.pre[f] <= last.now
            /\ last.pre[f] > last.now => nextDue[f] = last.pre[f]

\* C15: with real-time metering, when the history holds a record with known
\* consumption for the hour before the current one (the hour-aligned record
\* one hour before the hour of now), wherever now lies within its hour, the
\* next update time before the cap is the next hour at minute 2; it is
\* now + 2 minutes only when that record is missing.
C15_NextDueWithinHour ==
    (PRIMARY \in last.invoked /\ realTime /\ last.primary = "returned") =>
        LET t == last.now
            cons_data == last.pin.cons_data
            st == HourLoop(LoopStart, cons_data, 1, t)
            known == \E i \in 1..Len(cons_data) :
                        /\ cons_data[i].from = HourFloor(t) - 3600
                        /\ cons_data[i].consumption # Null
        IN  BaseNextUpdate(t, realTime, st) =
                IF known THEN HourFloor(t) + 3600 + 120 ELSE t + 120

\* the callers whose coroutine is suspended inside the fetcher f
Inside(f) ==
    {r \in Runners :
        coros[r].pc \in (IF f = PRIMARY THEN {"history", "refresh"}
                         ELSE {"token", "fetch"})}

\* C16: under every interleaving of the ticks of the scheduler and explicit
\* refresh requests, no fetcher is invoked while an earlier invocation of it
\* has not returned (within one coroutine the due fetchers run one after
\* another: a coroutine is inside at most one fetcher).
C16_NoOverlappingInvocation ==
    \A f \in {PRIMARY, SECONDARY} : Cardinality(Inside(f)) <= 1

\* a tick that invokes the secondary fetcher treats the token so
TokenStep ==
    SECONDARY \in last'.invoked =>
        /\ last'.authenticated <=> token = NoToken
        /\ (token # NoToken /\ last'.sin.fetch # "raise") => token' = token
        /\ (token = NoToken /\ last'.sin.fetch # "raise") =>
              token' = last'.sin.auth
        /\ ((token # NoToken \/ last'.sin.auth # NoToken)
              /\ last'.sin.fetch = "raise") => token' = NoToken

\* C17: the secondary fetcher calls get_tibber_token only when no token is
\* cached; a token that was obtained is kept and reused, without another
\* authentication, by every later invocation as long as get_tibber_data
\* does not raise; when it raises no token is cached afterwards, so that the
\* next invocation authenticates again.
C17_TokenCachedUntilFetchFails == [][TokenStep]_vars

\* an invocation that found the token of an earlier one and did not
\* authenticate
C17_Witness ==
    /\ SECONDARY \in last.invoked
    /\ ~last.authenticated
    /\ last.secondary = "returned"
    /\ token = Token
    /\ secCount = 2

\* C19: every invocation of a fetcher that returns a next update time
\* returns one strictly later than the now of its tick, for both fetchers
\* and whatever the hour, the real-time flag and the availability of
\* consumption records and of tomorrow's prices.
C19_NextDueAfterNow ==
    /\ (PRIMARY \in last.invoked /\ last.primary = "returned") =>
          nextDue[PRIMARY] > last.now
    /\ (SECONDARY \in last.invoked
          /\ last.secondary \in {"failed", "returned"}) =>
          nextDue[SECONDARY] > last.now

\* both fetchers returned in a tick on the hour, after 13:00, with real-time
\* metering and the record of the hour before
C19_Witness ==
    /\ last.primary = "returned"
    /\ last.secondary = "returned"
    /\ realTime
    /\ HourOf(last.now) >= 13
    /\ HourLoop(LoopStart, last.pin.cons_data, 1,
                last.now).consumption_today_available
    /\ nextDue[PRIMARY] = last.now + 2 * Minute

-----------------------------------------------------------------------------
(* Claims about the aggregates and the ledger of one primary run *)

\* C18: est_subsidy is (the mean price over all ledger records with a known
\* price, a price of 0 counting in the denominator, minus 0.7 * 1.25) * 0.9,
\* and monthly_avg_price is the mean price over exactly the records with
\* both cost and consumption known (those of them that carry a price).
C18_MeansCountZeroPrice ==
    (StoredNow /\ last.primary = "returned") =>
        LET M == ledger[1]
            priced == {c \in M : c.price # Null}
            known == {c \in priced : c.cost # Null /\ c.cons # Null}
            price == [c \in priced |-> c.price]
            data == selfData[1]
        IN  /\ data["est_subsidy"] =
                  RMul(RSub(Rat(SumOver(priced, price), Cardinality(priced)),
                            Rat(875, 1000)),
                       Rat(9, 10))
            /\ data["monthly_avg_price"] =
                  Rat(SumOver(known, price), Cardinality(known))

\* C20: the first insert wins in the month ledger: when a record with known
\* consumption has been inserted and a record with the same timestamp comes
\* later (the same hour again in the history, or the price point of that
\* hour), the ledger holds the first record with all its fields and no
\* other record of that timestamp.
C20_FirstInsertWins ==
    StoredNow =>
        LET cons_data == last.pin.cons_data
            Inserted(i) == /\ cons_data[i].consumption # Null
                           /\ SameMonth(cons_data[i].from, last.now)
        IN  \A i \in 1..Len(cons_data) :
              (Inserted(i) /\ \A j \in 1..(i - 1) :
                                 Inserted(j) =>
                                    cons_data[j].from # cons_data[i].from) =>
                 \A c \in ledger[1] :
                    c.timestamp = cons_data[i].from <=>
                       c = [timestamp |-> cons_data[i].from,
                            cons |-> cons_data[i].consumption,
                            price |-> cons_data[i].unitPrice,
                            cost |-> cons_data[i].cost]

\* the history repeats an hour with other values, the price map has a point
\* of that hour too, and the ledger holds the record that came first
C20_Witness ==
    /\ StoredNow
    /\ Len(last.pin.cons_data) = 2
    /\ last.pin.cons_data[1].from = last.pin.cons_data[2].from
    /\ last.pin.cons_data[1].consumption # Null
    /\ last.pin.cons_data[2].consumption # Null
    /\ last.pin.cons_data[1].cost # last.pin.cons_data[2].cost
    /\ \E k \in 1..Len(last.pin.price_total) :
          last.pin.price_total[k][1] = last.pin.cons_data[1].from
    /\ \E c \in ledger[1] :
          /\ c.timestamp = last.pin.cons_data[1].from
          /\ c.cost = last.pin.cons_data[1].cost

====
